---- MODULE Spec2Model ----
(***************************************************************************)
(* A state-machine model of the Morse code learner (src/main.rs).          *)
(*                                                                         *)
(* One process run is main(): MorseTutor::new() followed by run().  The    *)
(* blocking reads of run() are the points at which the model is observed:  *)
(*   pc = "ready"   new() has returned, run() has not been called          *)
(*   pc = "answer"  practice_item() blocks reading the answer              *)
(*   pc = "prompt"  run() blocks reading the quit / continue line          *)
(*   pc = "done"    end_session() has returned, the process has exited     *)
(* The configuration and statistics files outlive the process; a later     *)
(* process run starts from them.                                           *)
(*                                                                         *)
(* Items (String) are sequences of one-character strings, so "THE" is      *)
(* <<"T","H","E">> and the symbol item 'E' is <<"E">>.  f32 values are     *)
(* exact rationals <<numerator, denominator>>.  Times are in tenths of a   *)
(* second.  The timestamp of a log entry is not modelled.                  *)
(***************************************************************************)
EXTENDS Integers, Sequences, FiniteSets, TLC

\* ------------------------------------------------------------------ bounds
\* process runs (sessions) in one behaviour
MaxSessions == 2
\* answer lines read in one behaviour of Spec
MaxAnswers == 2
\* answer lines read in one behaviour of DrillSpec
MaxDrillAnswers == 12
\* incorrect answers in one behaviour
MaxWrong == 2
\* correct and incorrect answers of a session EvalSpec starts from
MaxEvalCorrect == 19
MaxEvalWrong == 3

\* the orders a shuffle may produce (rotations of its input)
Shuffles == {0, 1}
\* the answer times a user may take (tenths of a second); the last one is
\* longer than the default one-minute budget
RespTimes == {10, 50, 700}
\* the time every answer of a session EvalSpec starts from takes
EvalTimes == {10, 25, 30, 35, 40, 50, 60}
\* a line that is no Morse code
WrongInput == "X"

\* --------------------------------------------------------------- rationals
RECURSIVE Gcd(_, _)
Gcd(a, b) == IF b = 0 THEN a ELSE Gcd(b, a % b)

Rat(n, d) == LET g == Gcd(n, d) IN IF n = 0 THEN <<0, 1>> ELSE <<n \div g, d \div g>>
RatLeq(a, b) == a[1] * b[2] <= b[1] * a[2]
RatAdd(a, b) == Rat(a[1] * b[2] + b[1] * a[2], a[2] * b[2])
RatMulInt(a, k) == Rat(a[1] * k, a[2])
RatDivInt(a, k) == Rat(a[1], a[2] * k)

\* ---------------------------------------------------------- static tables
MORSE_MAPPING ==
  << <<"A", ".-">>, <<"B", "-...">>, <<"C", "-.-.">>, <<"D", "-..">>, <<"E", ".">>,
     <<"F", "..-.">>, <<"G", "--.">>, <<"H", "....">>, <<"I", "..">>, <<"J", ".---">>,
     <<"K", "-.-">>, <<"L", ".-..">>, <<"M", "--">>, <<"N", "-.">>, <<"O", "---">>,
     <<"P", ".--.">>, <<"Q", "--.-">>, <<"R", ".-.">>, <<"S", "...">>, <<"T", "-">>,
     <<"U", "..-">>, <<"V", "...-">>, <<"W", ".--">>, <<"X", "-..-">>, <<"Y", "-.--">>,
     <<"Z", "--..">>, <<"1", ".----">>, <<"2", "..---">>, <<"3", "...--">>,
     <<"4", "....-">>, <<"5", ".....">>, <<"6", "-....">>, <<"7", "--...">>,
     <<"8", "---..">>, <<"9", "----.">>, <<"0", "-----">> >>

\* ProgressionSystem::new: the requirements as rationals (5.0 is <<50, 10>>)
Levels ==
  << [level |-> 1, chars_to_learn |-> <<"E", "T">>,
      speed_requirement |-> <<50, 10>>, accuracy_requirement |-> <<80, 100>>],
     [level |-> 2, chars_to_learn |-> <<"A", "I", "M", "N">>,
      speed_requirement |-> <<40, 10>>, accuracy_requirement |-> <<85, 100>>],
     [level |-> 3, chars_to_learn |-> <<"D", "G", "K", "O">>,
      speed_requirement |-> <<35, 10>>, accuracy_requirement |-> <<90, 100>>],
     [level |-> 4, chars_to_learn |-> <<"R", "S", "U", "W">>,
      speed_requirement |-> <<35, 10>>, accuracy_requirement |-> <<90, 100>>],
     [level |-> 5, chars_to_learn |-> <<"B", "C", "F", "H", "J", "L">>,
      speed_requirement |-> <<30, 10>>, accuracy_requirement |-> <<95, 100>>],
     [level |-> 6, chars_to_learn |-> <<"P", "Q", "V", "X", "Y", "Z">>,
      speed_requirement |-> <<30, 10>>, accuracy_requirement |-> <<95, 100>>],
     [level |-> 7, chars_to_learn |-> <<"0", "1", "2", "3", "4">>,
      speed_requirement |-> <<25, 10>>, accuracy_requirement |-> <<95, 100>>],
     [level |-> 8, chars_to_learn |-> <<"5", "6", "7", "8", "9">>,
      speed_requirement |-> <<25, 10>>, accuracy_requirement |-> <<95, 100>>] >>

DefaultWords ==
  << <<"T","H","E">>, <<"B","E">>, <<"T","O">>, <<"O","F">>, <<"A","N","D">>,
     <<"A">>, <<"I","N">>, <<"T","H","A","T">>, <<"H","A","V","E">>, <<"I">>,
     <<"I","T">>, <<"F","O","R">>, <<"N","O","T">>, <<"O","N">>, <<"W","I","T","H">>,
     <<"H","E">>, <<"A","S">>, <<"Y","O","U">>, <<"D","O">>, <<"A","T">> >>


\* a file is absent, or holds data; parses: toml::from_str accepts its text
NoFile == [exists |-> FALSE, parses |-> FALSE, data |-> <<>>]
File(d) == [exists |-> TRUE, parses |-> TRUE, data |-> d]

\* the lines a common_words.txt may hold
WordFiles == {NoFile, File(<< <<"t", "o">>, <<>>, <<"B", "E">> >>)}

\* ------------------------------------------------------------ pure helpers
LowerCase == <<"a","b","c","d","e","f","g","h","i","j","k","l","m",
               "n","o","p","q","r","s","t","u","v","w","x","y","z">>
UpperCase == <<"A","B","C","D","E","F","G","H","I","J","K","L","M",
               "N","O","P","Q","R","S","T","U","V","W","X","Y","Z">>

to_ascii_uppercase(c) ==
  IF \E i \in DOMAIN LowerCase : LowerCase[i] = c
    THEN UpperCase[CHOOSE i \in DOMAIN LowerCase : LowerCase[i] = c]
    ELSE c

to_uppercase(s) == [i \in DOMAIN s |-> to_ascii_uppercase(s[i])]

Min(a, b) == IF a <= b THEN a ELSE b

contains(s, c) == \E i \in DOMAIN s : s[i] = c

\* the code is looked up for the symbol as written
char_to_morse_exact(c) ==
  LET hits == {i \in DOMAIN MORSE_MAPPING : MORSE_MAPPING[i][1] = c}
  IN IF hits = {} THEN <<>>
     ELSE <<MORSE_MAPPING[CHOOSE i \in hits : \A j \in hits : i <= j][2]>>

\* an Option is the empty sequence (None) or a one-element sequence (Some)
char_to_morse(c) ==
  LET hits == {i \in DOMAIN MORSE_MAPPING : MORSE_MAPPING[i][1] = to_ascii_uppercase(c)}
  IN IF hits = {} THEN <<>>
     ELSE <<MORSE_MAPPING[CHOOSE i \in hits : \A j \in hits : i <= j][2]>>

RECURSIVE join(_)
join(codes) ==
  IF codes = <<>> THEN ""
  ELSE IF Len(codes) = 1 THEN codes[1]
  ELSE codes[1] \o " " \o join(Tail(codes))

RECURSIVE filter_map_morse(_)
filter_map_morse(word) ==
  IF word = <<>> THEN <<>>
  ELSE char_to_morse(Head(word)) \o filter_map_morse(Tail(word))

encode_word(word) == join(filter_map_morse(word))

\* levels.iter().find(|l| l.level == d)
find_level(d) ==
  LET hits == {i \in DOMAIN Levels : Levels[i].level = d}
  IN IF hits = {} THEN <<>>
     ELSE <<Levels[CHOOSE i \in hits : \A j \in hits : i <= j]>>

\* for c in cs { if !chars.contains(c) { chars.push(c) } }
RECURSIVE push_missing(_, _)
push_missing(chars, cs) ==
  IF cs = <<>> THEN chars
  ELSE push_missing(IF contains(chars, Head(cs)) THEN chars ELSE Append(chars, Head(cs)),
                    Tail(cs))

\* the r-th order a shuffle may produce: the input rotated left by r
shuffle(s, r) ==
  IF s = <<>> THEN s
  ELSE LET k == r % Len(s) IN SubSeq(s, k + 1, Len(s)) \o SubSeq(s, 1, k)

RECURSIVE repeat(_, _)
repeat(s, n) == IF n = 0 THEN <<>> ELSE s \o repeat(s, n - 1)

\* the lines of common_words.txt trimmed, upper-cased, empty ones dropped
RECURSIVE read_words(_)
read_words(lines) ==
  IF lines = <<>> THEN <<>>
  ELSE (IF Head(lines) = <<>> THEN <<>> ELSE <<to_uppercase(Head(lines))>>)
       \o read_words(Tail(lines))

common_words_of(file) == IF file.exists THEN read_words(file.data) ELSE DefaultWords

RECURSIVE sum_values(_, _)
sum_values(m, keys) ==
  IF keys = {} THEN 0
  ELSE LET k == CHOOSE k \in keys : TRUE IN m[k] + sum_values(m, keys \ {k})

insert(m, k, v) == [x \in DOMAIN m \cup {k} |-> IF x = k THEN v ELSE m[x]]

EmptyMap == [x \in {} |-> 0]


\* ------------------------------------------------------------------- state
VARIABLES
  config,           \* AppConfig of the running MorseTutor
  stats,            \* UserStats of the running MorseTutor
  common_words,     \* progression.common_words
  practice_queue,   \* VecDeque<String>
  elapsed,          \* session_start.elapsed(), tenths of a second
  correct_answers,
  total_answers,
  is_word_level,
  pc,               \* where main() is blocked
  current_item,     \* run(): the item last presented
  correct,          \* run(): what practice_item returned for it
  summary,          \* what show_summary last printed
  disk_config,      \* morse_config.toml
  disk_stats,       \* morse_stats.toml
  errors,           \* the "Error saving ..." lines written to stderr
  words_file,       \* common_words.txt
  seeded,           \* history: the queue as generate_practice_queue last left it
  answered,         \* history: items answered correctly since that seeding
  wrong_answers,    \* history: incorrect answers of the session
  exit_reason,      \* history: how the practice loop was left
  sessions,         \* history: process runs so far
  inputs,           \* history: the answer lines read so far, by kind
  presented,        \* history: the queue when the last item was presented
  at_exit,          \* history: the tutor when the loop was last left
  practiced,        \* history: the items presented in the session
  last_response_time, \* history: the time the last answer took
  word,             \* the argument of a call of encode_word
  code              \* what that call returned

vars == <<config, stats, common_words, practice_queue, elapsed, correct_answers,
          total_answers, is_word_level, pc, current_item, correct, summary,
          disk_config, disk_stats, words_file, seeded, answered, wrong_answers,
          exit_reason, sessions, inputs, presented, at_exit, errors, practiced,
          last_response_time, word, code>>

AppConfigDefault == [difficulty_level |-> 1, session_duration |-> 1, known_chars |-> <<>>]

UserStatsDefault ==
  [sessions_completed |-> 0, chars_learned |-> 0, words_learned |-> 0,
   accuracy |-> <<0, 1>>, response_times |-> EmptyMap,
   word_response_times |-> EmptyMap, session_history |-> <<>>]

\* nothing printed yet
NoSummary ==
  [duration |-> 0, exercises |-> 0, correct |-> 0, accuracy |-> <<0, 1>>,
   difficulty |-> 0]

\* the MorseTutor and the files it writes, as one record the methods transform
Self ==
  [config |-> config, stats |-> stats, common_words |-> common_words,
   practice_queue |-> practice_queue, elapsed |-> elapsed,
   correct_answers |-> correct_answers, total_answers |-> total_answers,
   is_word_level |-> is_word_level, summary |-> summary,
   disk_config |-> disk_config, disk_stats |-> disk_stats,
   seeded |-> seeded, answered |-> answered, errors |-> errors]

Become(t) ==
  /\ config' = t.config
  /\ stats' = t.stats
  /\ common_words' = t.common_words
  /\ practice_queue' = t.practice_queue
  /\ elapsed' = t.elapsed
  /\ correct_answers' = t.correct_answers
  /\ total_answers' = t.total_answers
  /\ is_word_level' = t.is_word_level
  /\ summary' = t.summary
  /\ disk_config' = t.disk_config
  /\ disk_stats' = t.disk_stats
  /\ seeded' = t.seeded
  /\ answered' = t.answered
  /\ errors' = t.errors

\* session_start.elapsed().as_secs()
as_secs(e) == e \div 10

\* ------------------------------------------------------------- the methods
\* the items generate_practice_queue builds, r choosing the shuffle
queue_items(t, r) ==
  IF t.is_word_level
    THEN LET selected_words == shuffle(t.common_words, r)
         IN SubSeq(selected_words, 1, Min(10, Len(selected_words)))
    ELSE LET shuffled == shuffle(t.config.known_chars, r)
             level == find_level(t.config.difficulty_level)
             chars == IF level = <<>> THEN shuffled
                      ELSE push_missing(shuffled, level[1].chars_to_learn)
         IN repeat([i \in DOMAIN chars |-> <<chars[i]>>], 5)

generate_practice_queue(t, r) ==
  LET q == queue_items(t, r)
  IN [t EXCEPT !.practice_queue = q, !.seeded = q, !.answered = EmptyMap]

\* the quotient taken without the guard: 0.0 / 0.0 is NaN, written <<0, 0>>
accuracy_of_unguarded(t) ==
  IF t.total_answers > 0 THEN Rat(t.correct_answers, t.total_answers) ELSE <<0, 0>>

\* if self.total_answers > 0 { correct / total } else { 0.0 }
accuracy_of(t) ==
  IF t.total_answers > 0 THEN Rat(t.correct_answers, t.total_answers) ELSE <<0, 1>>

\* the mean of the stored samples, in seconds
avg_time_of(t) ==
  LET m == t.stats.response_times
  IN IF DOMAIN m # {} THEN Rat(sum_values(m, DOMAIN m), 10 * Cardinality(DOMAIN m))
     ELSE <<0, 1>>

\* the statistics are never written
save_stats_skip(t, ok) == t

\* AppConfig::save and UserStats::save; ok: the write succeeds
save_config(t, ok) == IF ok THEN [t EXCEPT !.disk_config = File(t.config)] ELSE t
save_stats(t, ok) == IF ok THEN [t EXCEPT !.disk_stats = File(t.stats)] ELSE t

\* if let Err(e) = ...save() { eprintln!("Error saving ...") }
report(t, ok) == IF ok THEN t ELSE [t EXCEPT !.errors = @ + 1]

show_summary(t) ==
  [t EXCEPT !.summary =
     [duration |-> as_secs(t.elapsed), exercises |-> t.total_answers,
      correct |-> t.correct_answers, accuracy |-> accuracy_of(t),
      difficulty |-> t.config.difficulty_level]]

\* the speed bound taken as exclusive
should_advance_strict(avg_time, accuracy, level) ==
  /\ RatLeq(avg_time, level.speed_requirement)
  /\ avg_time # Rat(level.speed_requirement[1], level.speed_requirement[2])
  /\ RatLeq(level.accuracy_requirement, accuracy)

\* avg_time <= level.speed_requirement && accuracy >= level.accuracy_requirement
should_advance(avg_time, accuracy, level) ==
  RatLeq(avg_time, level.speed_requirement) /\ RatLeq(level.accuracy_requirement, accuracy)

\* the known characters replaced by the next level's instead of extended
advance_replace(t) ==
  LET d == (t.config.difficulty_level + 1) % 256
      t1 == [t EXCEPT !.config.difficulty_level = d]
  IN IF d = 9 THEN [t1 EXCEPT !.is_word_level = TRUE]
     ELSE LET next_level == find_level(d)
          IN IF next_level = <<>> THEN t1
             ELSE [t1 EXCEPT !.config.known_chars = next_level[1].chars_to_learn]

\* the level incremented, the word flag left as it was
advance_unflagged(t) ==
  LET d == (t.config.difficulty_level + 1) % 256
      t1 == [t EXCEPT !.config.difficulty_level = d]
      next_level == find_level(d)
  IN IF next_level = <<>> THEN t1
     ELSE [t1 EXCEPT !.config.known_chars =
             push_missing(t.config.known_chars, next_level[1].chars_to_learn)]

\* the body of the advancement branch up to the new queue
advance(t) ==
  LET d == (t.config.difficulty_level + 1) % 256
      t1 == [t EXCEPT !.config.difficulty_level = d]
  IN IF d = 9 THEN [t1 EXCEPT !.is_word_level = TRUE]
     ELSE LET next_level == find_level(d)
          IN IF next_level = <<>> THEN t1
             ELSE [t1 EXCEPT !.config.known_chars =
                     push_missing(t.config.known_chars, next_level[1].chars_to_learn)]

\* the advancement decided but the configuration not written again
update_progression_unsaved(t, r, ok) ==
  IF t.is_word_level THEN t
  ELSE LET level == find_level(t.config.difficulty_level)
       IN IF level = <<>> THEN t
          ELSE IF should_advance(avg_time_of(t), accuracy_of(t), level[1])
                 THEN generate_practice_queue(advance(t), r)
                 ELSE t

update_progression(t, r, ok) ==
  IF t.is_word_level THEN t
  ELSE LET level == find_level(t.config.difficulty_level)
       IN IF level = <<>> THEN t
          ELSE LET t1 == IF should_advance(avg_time_of(t), accuracy_of(t), level[1])
                            THEN generate_practice_queue(advance(t), r)
                            ELSE t
               IN report(save_config(t1, ok), ok)

\* what end_session writes into the open log entry
close_entry(t, session) ==
  LET s1 == [session EXCEPT !.duration = as_secs(t.elapsed), !.accuracy = accuracy_of(t)]
  IN IF t.is_word_level
       THEN [s1 EXCEPT !.words_practiced = t.practice_queue]
       ELSE [s1 EXCEPT !.chars_practiced =
               [i \in DOMAIN t.practice_queue |-> t.practice_queue[i][1]]]

\* the open log entry is left as start_session pushed it
commit_session_open(t) ==
  LET n == t.stats.sessions_completed + 1
  IN [t EXCEPT !.stats.sessions_completed = n,
               !.stats.accuracy =
                 RatDivInt(RatAdd(RatMulInt(t.stats.accuracy, n - 1), accuracy_of(t)), n)]

\* the old average weighted by n instead of n - 1
commit_session_overweight(t) ==
  LET h == t.stats.session_history
      h1 == IF h = <<>> THEN h ELSE [h EXCEPT ![Len(h)] = close_entry(t, h[Len(h)])]
      n == t.stats.sessions_completed + 1
  IN [t EXCEPT !.stats.session_history = h1,
               !.stats.sessions_completed = n,
               !.stats.accuracy =
                 RatDivInt(RatAdd(RatMulInt(t.stats.accuracy, n), accuracy_of(t)), n)]

commit_session(t) ==
  LET h == t.stats.session_history
      h1 == IF h = <<>> THEN h ELSE [h EXCEPT ![Len(h)] = close_entry(t, h[Len(h)])]
      n == t.stats.sessions_completed + 1
  IN [t EXCEPT !.stats.session_history = h1,
               !.stats.sessions_completed = n,
               !.stats.accuracy =
                 RatDivInt(RatAdd(RatMulInt(t.stats.accuracy, n - 1), accuracy_of(t)), n)]

\* a failed write of the configuration ends end_session at once
end_session_abort(t, r, io) ==
  LET t1 == commit_session(t)
      t2 == report(save_config(t1, io[1]), io[1])
      t3 == report(save_stats(t2, io[2]), io[2])
      t4 == show_summary(t3)
  IN IF io[1] THEN update_progression(t4, r, io[3]) ELSE t2

\* io: which of the three writes succeed
end_session(t, r, io) ==
  LET t1 == commit_session(t)
      t2 == report(save_config(t1, io[1]), io[1])
      t3 == report(save_stats(t2, io[2]), io[2])
      t4 == show_summary(t3)
  IN update_progression(t4, r, io[3])

start_session(t) ==
  [t EXCEPT !.elapsed = 0,
            !.stats.session_history =
              Append(@, [duration |-> 0, chars_practiced |-> <<>>,
                         words_practiced |-> <<>>, accuracy |-> <<0, 1>>,
                         difficulty |-> t.config.difficulty_level]),
            !.correct_answers = 0,
            !.total_answers = 0]

\* the code practice_item expects for item
morse_code_of(t, item) ==
  IF t.is_word_level THEN encode_word(item)
  ELSE LET m == char_to_morse(item[1]) IN IF m = <<>> THEN "" ELSE m[1]

\* input == morse_code, input being the line read, trimmed and upper-cased
answer_correct(t, item, input) == input = morse_code_of(t, item)

\* the first sample of an item is kept, later ones are dropped
practice_item_keepfirst(t, item, input, response_time) ==
  LET ok == answer_correct(t, item, input)
      t1 == [t EXCEPT !.total_answers = @ + 1, !.elapsed = @ + response_time]
      keep(m, k) == IF k \in DOMAIN m THEN m ELSE insert(m, k, response_time)
      t2 == IF t.is_word_level
              THEN [t1 EXCEPT !.stats.word_response_times = keep(@, item),
                              !.stats.words_learned = @ + 1]
              ELSE [t1 EXCEPT !.stats.response_times = keep(@, item[1]),
                              !.stats.chars_learned = @ + 1]
  IN IF ok
       THEN [t2 EXCEPT !.correct_answers = @ + 1,
                       !.answered = insert(@, item, IF item \in DOMAIN @ THEN @[item] + 1 ELSE 1)]
       ELSE t2

\* an attempt is counted only when it is correct
practice_item_uncounted(t, item, input, response_time) ==
  LET ok == answer_correct(t, item, input)
      t1 == [t EXCEPT !.elapsed = @ + response_time]
      t2 == IF t.is_word_level
              THEN [t1 EXCEPT !.stats.word_response_times = insert(@, item, response_time),
                              !.stats.words_learned = @ + 1]
              ELSE [t1 EXCEPT !.stats.response_times = insert(@, item[1], response_time),
                              !.stats.chars_learned = @ + 1]
  IN IF ok
       THEN [t2 EXCEPT !.correct_answers = @ + 1, !.total_answers = @ + 1,
                       !.answered = insert(@, item, IF item \in DOMAIN @ THEN @[item] + 1 ELSE 1)]
       ELSE t2

\* practice_item after the answer line was read
practice_item(t, item, input, response_time) ==
  LET ok == answer_correct(t, item, input)
      t1 == [t EXCEPT !.total_answers = @ + 1, !.elapsed = @ + response_time]
      t2 == IF t.is_word_level
              THEN [t1 EXCEPT !.stats.word_response_times = insert(@, item, response_time),
                              !.stats.words_learned = @ + 1]
              ELSE [t1 EXCEPT !.stats.response_times = insert(@, item[1], response_time),
                              !.stats.chars_learned = @ + 1]
  IN IF ok
       THEN [t2 EXCEPT !.correct_answers = @ + 1,
                       !.answered = insert(@, item, IF item \in DOMAIN @ THEN @[item] + 1 ELSE 1)]
       ELSE t2

\* a failed item is dropped like a solved one
resolve_drop(q, ok) == Tail(q)

\* run(): pop_front on success, pop_front and push_back on failure
resolve(q, ok) == IF ok THEN Tail(q) ELSE Append(Tail(q), Head(q))

\* the time check made in word mode too
timed_out_any(t) == as_secs(t.elapsed) > t.config.session_duration * 60

\* the loop condition's time check
timed_out(t) ==
  ~t.is_word_level /\ as_secs(t.elapsed) > t.config.session_duration * 60

\* word mode entered one level late
word_level_of_late(cfg) == cfg.difficulty_level > 9

\* let is_word_level = config.difficulty_level >= 9
word_level_of(cfg) == cfg.difficulty_level >= 9

\* the fields a damaged profile still shows are taken over
load_config_salvage(file) == IF file.exists THEN file.data ELSE AppConfigDefault

\* AppConfig::load, UserStats::load with unwrap_or_default: a file that
\* cannot be parsed is an Err, and the Err becomes the default record
load_config(file) ==
  IF file.exists /\ file.parses THEN file.data ELSE AppConfigDefault
load_stats(file) ==
  IF file.exists /\ file.parses THEN file.data ELSE UserStatsDefault

\* MorseTutor::new on the three files; ok: the write of a default config
new(dc, ds, wf, r, ok) ==
  LET cfg == load_config(dc)
      t == [config |-> cfg, stats |-> load_stats(ds),
            common_words |-> common_words_of(wf),
            practice_queue |-> <<>>, elapsed |-> 0,
            correct_answers |-> 0, total_answers |-> 0,
            is_word_level |-> word_level_of(cfg),
            summary |-> NoSummary,
            disk_config |-> IF ~dc.exists /\ ok THEN File(AppConfigDefault) ELSE dc,
            disk_stats |-> ds, seeded |-> <<>>, answered |-> EmptyMap,
            errors |-> 0]
  IN generate_practice_queue(t, r)


\* ------------------------------------------------------------ environment
\* the profile the program has written after advancing from the default to level k
RECURSIVE profile(_)
profile(k) ==
  IF k <= 1 THEN AppConfigDefault
  ELSE advance([config |-> profile(k - 1), is_word_level |-> FALSE]).config

\* what morse_config.toml may hold when the first process starts
StoredConfigs == {NoFile} \cup {File(profile(k)) : k \in 1..9}

AllOk == <<TRUE, TRUE, TRUE>>

\* ----------------------------------------------------------------- actions
\* the tutor and the files when new() has returned; ok: the write of a
\* default profile
Installed(dc, ds, wf, ok) ==
  \E r \in Shuffles :
    LET t == new(dc, ds, wf, r, ok)
    IN /\ config = t.config
       /\ stats = t.stats
       /\ common_words = t.common_words
       /\ practice_queue = t.practice_queue
       /\ elapsed = t.elapsed
       /\ correct_answers = t.correct_answers
       /\ total_answers = t.total_answers
       /\ is_word_level = t.is_word_level
       /\ summary = t.summary
       /\ disk_config = t.disk_config
       /\ disk_stats = t.disk_stats
       /\ seeded = t.seeded
       /\ answered = t.answered
       /\ errors = t.errors
       /\ words_file = wf
       /\ current_item = <<>>
       /\ correct = FALSE
       /\ wrong_answers = 0
       /\ exit_reason = "none"
       /\ sessions = 1
       /\ inputs = [answers |-> 0, wrong |-> 0]
       /\ presented = <<>>
       /\ at_exit = t
       /\ practiced = {}
       /\ last_response_time = 0
       /\ code = ""

\* the state when new() has returned and run() is about to be called
InitWith(dc, ds, wf, ok) ==
  /\ Installed(dc, ds, wf, ok)
  /\ pc = "ready"
  /\ word = <<>>

\* the files of an install: a stored profile (or none) and a word list (or
\* none); a word list is read by every run and used from level 9 on
Installs ==
  {<<dc, NoFile>> : dc \in StoredConfigs}
    \cup {<<File(profile(k)), wf>> : k \in {8, 9}, wf \in WordFiles}

\* no stored statistics, the configuration file writable
InitFrom(dc, wf) == InitWith(dc, NoFile, wf, TRUE)

Init == \E i \in Installs : InitFrom(i[1], i[2])

\* a fresh install: no configuration, no statistics, no word list
DrillInit == InitFrom(NoFile, NoFile)

\* the loop is left: end_session, and main returns
\* io: which of the writes of end_session succeed
LeaveWith(t, reason, r, io) ==
  /\ Become(end_session(t, r, io))
  /\ at_exit' = t
  /\ exit_reason' = reason
  /\ pc' = "done"

Leave(t, reason, r) == LeaveWith(t, reason, r, AllOk)

\* the head of the loop: leave, or present the next item
LoopHeadWith(t, r, io) ==
  IF t.practice_queue = <<>> THEN LeaveWith(t, "exhausted", r, io)
  ELSE IF timed_out(t) THEN LeaveWith(t, "timeout", r, io)
  ELSE /\ Become(t)
       /\ pc' = "answer"
       /\ UNCHANGED <<exit_reason, at_exit>>

LoopHead(t, r) == LoopHeadWith(t, r, AllOk)

\* run() up to the first blocking read; rs: the shuffles, ios: the write
\* outcomes possible
RunOn(rs, ios) ==
  /\ pc = "ready"
  /\ \E r \in rs : \E io \in ios : LoopHeadWith(start_session(Self), r, io)
  /\ wrong_answers' = 0
  /\ practiced' = {}
  /\ UNCHANGED <<current_item, correct, words_file, sessions, inputs, presented,
                 last_response_time, word, code>>

RunWith(ios) == RunOn(Shuffles, ios)

\* one pass of the loop body up to the prompt: practice_item on the head,
\* then the queue is resolved
answer_step(t, input, response_time) ==
  LET item == Head(t.practice_queue)
      ok == answer_correct(t, item, input)
      t1 == practice_item(t, item, input, response_time)
  IN [tutor |-> [t1 EXCEPT !.practice_queue = resolve(@, ok)],
      item |-> item, ok |-> ok]

\* the answer line arrives, after one of the given times
AnswerFrom(n, times) ==
  /\ pc = "answer"
  /\ inputs.answers < n
  /\ \E response_time \in times :
     \E input \in {morse_code_of(Self, Head(practice_queue)), WrongInput} :
       LET a == answer_step(Self, input, response_time)
       IN /\ a.ok \/ inputs.wrong < MaxWrong
          /\ Become(a.tutor)
          /\ current_item' = a.item
          /\ correct' = a.ok
          /\ presented' = practice_queue
          /\ practiced' = practiced \cup {a.item}
          /\ last_response_time' = response_time
          /\ wrong_answers' = IF a.ok THEN wrong_answers ELSE wrong_answers + 1
          /\ inputs' = [answers |-> inputs.answers + 1,
                        wrong |-> inputs.wrong + (IF a.ok THEN 0 ELSE 1)]
  /\ pc' = "prompt"
  /\ UNCHANGED <<words_file, sessions, exit_reason, at_exit, word, code>>

Run == RunWith({AllOk})

AnswerWithin(n) == AnswerFrom(n, RespTimes)

\* the line after an item is "q"
QuitOn(rs, ios) ==
  /\ pc = "prompt"
  /\ \E r \in rs : \E io \in ios : LeaveWith(Self, "quit", r, io)
  /\ UNCHANGED <<current_item, correct, words_file, sessions, wrong_answers, inputs,
                 presented, practiced, last_response_time, word, code>>

\* the line after an item is not "q": back to the head of the loop
ContinueWith(n, ios) ==
  /\ pc = "prompt"
  /\ practice_queue = <<>> \/ timed_out(Self) \/ inputs.answers < n
  /\ \E r \in Shuffles : \E io \in ios : LoopHeadWith(Self, r, io)
  /\ UNCHANGED <<current_item, correct, words_file, sessions, wrong_answers, inputs,
                 presented, practiced, last_response_time, word, code>>

QuitWith(ios) == QuitOn(Shuffles, ios)
Quit == QuitWith({AllOk})
ContinueWithin(n) == ContinueWith(n, {AllOk})

\* a file whose text toml::from_str rejects; its data is what the text
\* still shows of the record last written
Garble(file) == [file EXCEPT !.parses = FALSE]

\* the program is started again on the files the last run left; oks: the
\* outcomes possible for the write of a default profile; damages: the sets
\* of files that may have been damaged while the program was not running;
\* rs: the shuffles possible
RestartFrom(n, rs, oks, damages) ==
  /\ pc = "done"
  /\ sessions < n
  /\ \E r \in rs : \E ok \in oks : \E bad \in damages :
       /\ "config" \in bad => disk_config.exists /\ disk_config.parses
       /\ "stats" \in bad => disk_stats.exists /\ disk_stats.parses
       /\ Become(new(IF "config" \in bad THEN Garble(disk_config) ELSE disk_config,
                     IF "stats" \in bad THEN Garble(disk_stats) ELSE disk_stats,
                     words_file, r, ok))
  /\ pc' = "ready"
  /\ sessions' = sessions + 1
  /\ exit_reason' = "none"
  /\ wrong_answers' = 0
  /\ current_item' = <<>>
  /\ correct' = FALSE
  /\ presented' = <<>>
  /\ practiced' = {}
  /\ last_response_time' = 0
  /\ UNCHANGED <<words_file, inputs, at_exit, word, code>>

RestartOn(n, oks, damages) == RestartFrom(n, Shuffles, oks, damages)
RestartWithin(n) == RestartOn(n, {TRUE}, {{}})
Restart == RestartWithin(MaxSessions)
Answer == AnswerWithin(MaxAnswers)
Continue == ContinueWithin(MaxAnswers)
DrillAnswer == AnswerWithin(MaxDrillAnswers)
DrillContinue == ContinueWithin(MaxDrillAnswers)

\* a stored profile of any gated level, no word list
EvalInit == \E k \in 1..8 : InitFrom(File(profile(k)), NoFile)

\* the answer line arrives, from a user who first fails some items and then
\* solves the items presented, taking the same time for every answer
EvalAnswer ==
  /\ pc = "answer"
  /\ \E response_time \in EvalTimes :
     \E input \in {morse_code_of(Self, Head(practice_queue)), WrongInput} :
       LET a == answer_step(Self, input, response_time)
       IN /\ IF total_answers = 0 THEN TRUE
             ELSE response_time = stats.response_times[current_item[1]]
          /\ IF a.ok THEN correct_answers < MaxEvalCorrect
                     ELSE correct_answers = 0 /\ wrong_answers < MaxEvalWrong
          /\ Become(a.tutor)
          /\ current_item' = a.item
          /\ correct' = a.ok
          /\ presented' = practice_queue
          /\ practiced' = practiced \cup {a.item}
          /\ last_response_time' = response_time
          /\ wrong_answers' = IF a.ok THEN wrong_answers ELSE wrong_answers + 1
          /\ inputs' = [answers |-> inputs.answers + 1,
                        wrong |-> inputs.wrong + (IF a.ok THEN 0 ELSE 1)]
  /\ pc' = "prompt"
  /\ UNCHANGED <<words_file, sessions, exit_reason, at_exit, word, code>>

EvalContinue == ContinueWithin(MaxEvalCorrect + MaxEvalWrong)

Next == Run \/ Answer \/ Quit \/ Continue \/ Restart
DrillNext == Run \/ DrillAnswer \/ Quit \/ DrillContinue
EvalNext == Run \/ EvalAnswer \/ Quit \/ EvalContinue

\* program runs, one after another, on the files of any install
Spec == Init /\ [][Next]_vars
\* one program run on a fresh install
DrillSpec == DrillInit /\ [][DrillNext]_vars
\* the end of a session of any gated level
EvalSpec == EvalInit /\ [][EvalNext]_vars

\* ------------------------------------------------- word mode and its edges
\* answer lines read in one behaviour of WordSpec
MaxWordAnswers == 2

\* what common_words.txt may hold: nothing readable, no line, blank lines
\* only, lower-case and blank lines, the same word on two lines
WordLists ==
  {NoFile,
   File(<<>>),
   File(<< <<>>, <<>> >>),
   File(<< <<"t", "o">>, <<>>, <<"B", "E">> >>),
   File(<< <<"t", "o">>, <<"T", "O">>, <<"A">> >>)}

\* how long the process may be kept from running (stopped, not scheduled)
\* between start_session and the first time check, tenths of a second
StartDelays == {700}

\* a learner at the last gated level or in word mode, with any word list
WordInit ==
  \E k \in {8, 9} : \E wf \in WordLists : InitFrom(File(profile(k)), wf)

\* run() up to the first blocking read, the first time check made late
RunLate ==
  /\ pc = "ready"
  /\ \E r \in Shuffles : \E delay \in StartDelays :
       LoopHead([start_session(Self) EXCEPT !.elapsed = delay], r)
  /\ wrong_answers' = 0
  /\ practiced' = {}
  /\ UNCHANGED <<current_item, correct, words_file, sessions, inputs, presented,
                 last_response_time, word, code>>

WordAnswer == AnswerWithin(MaxWordAnswers)
WordContinue == ContinueWithin(MaxWordAnswers)

WordNext == Run \/ RunLate \/ WordAnswer \/ Quit \/ WordContinue

\* one program run of a learner at the end of the progression
WordSpec == WordInit /\ [][WordNext]_vars

\* ------------------------------------------------- a series of sessions
\* process runs, and answer lines read, in one behaviour of SeriesSpec
MaxSeriesSessions == 3
MaxSeriesAnswers == 4

\* the answer time of these sessions: one second
SeriesTimes == {10, 700}

SeriesAnswer == AnswerFrom(MaxSeriesAnswers, SeriesTimes)
SeriesContinue == ContinueWithin(MaxSeriesAnswers)
SeriesRestart == RestartWithin(MaxSeriesSessions)

SeriesNext == Run \/ SeriesAnswer \/ Quit \/ SeriesContinue \/ SeriesRestart

\* program runs, one after another, starting on a fresh install
SeriesSpec == DrillInit /\ [][SeriesNext]_vars

\* ------------------------------------------ from the default to word mode
\* process runs, and answer lines read, in one behaviour of ClimbSpec
MaxClimbSessions == 9
MaxClimbAnswers == 9

\* the answer time of these sessions: one second
ClimbTimes == {10}
\* every shuffle of these sessions leaves its input in place
ClimbShuffles == {0}

ClimbRun == RunOn(ClimbShuffles, {AllOk})
\* the learner answers one item in a session
ClimbAnswer == total_answers = 0 /\ AnswerFrom(MaxClimbAnswers, ClimbTimes)
ClimbQuit == QuitOn(ClimbShuffles, {AllOk})
ClimbRestart == RestartFrom(MaxClimbSessions, ClimbShuffles, {TRUE}, {{}})

ClimbNext == ClimbRun \/ ClimbAnswer \/ ClimbQuit \/ ClimbRestart

\* program runs on a fresh install, enough of them to pass every level, the
\* learner answering one item and leaving
ClimbSpec == DrillInit /\ [][ClimbNext]_vars

\* ------------------------------------------- failing writes, damaged files
\* process runs, and answer lines read, in one behaviour of FaultSpec
MaxFaultSessions == 2
MaxFaultAnswers == 2

\* the answer time of these sessions: one second
FaultTimes == {10}

\* which of the writes succeed: the two of end_session, the one of
\* update_progression
WriteOutcomes == {<<a, b, c>> : a \in BOOLEAN, b \in BOOLEAN, c \in BOOLEAN}

\* the files that may be damaged between two runs
Damages == SUBSET {"config", "stats"}

\* a fresh install, or a learner in word mode; the directory writable or not
FaultInit ==
  \E dc \in {NoFile, File(profile(9))} : \E ok \in BOOLEAN :
    InitWith(dc, NoFile, NoFile, ok)

FaultRun == RunWith(WriteOutcomes)
FaultAnswer == AnswerFrom(MaxFaultAnswers, FaultTimes)
FaultQuit == QuitWith(WriteOutcomes)
FaultContinue == ContinueWith(MaxFaultAnswers, WriteOutcomes)
FaultRestart == RestartOn(MaxFaultSessions, BOOLEAN, Damages)

FaultNext == FaultRun \/ FaultAnswer \/ FaultQuit \/ FaultContinue \/ FaultRestart

\* program runs whose writes may fail and whose files may be damaged
FaultSpec == FaultInit /\ [][FaultNext]_vars

\* ------------------------------------------------------ the item encoder
\* the longest word encoded
MaxWordLen == 3

\* symbols a word may hold: letters in both cases, a digit, and symbols
\* without a code
WordSymbols == {"E", "e", "t", "S", "5", "-", " ", "?"}

Words == UNION {[1..n -> WordSymbols] : n \in 0..MaxWordLen}

\* encode_word is about to be called on any word
EncodeInit ==
  /\ Installed(NoFile, NoFile, NoFile, TRUE)
  /\ pc = "encode"
  /\ word \in Words

\* the call returns
Encode ==
  /\ pc = "encode"
  /\ code' = encode_word(word)
  /\ pc' = "encoded"
  /\ UNCHANGED <<config, stats, common_words, practice_queue, elapsed, correct_answers,
                 total_answers, is_word_level, current_item, correct, summary,
                 disk_config, disk_stats, words_file, seeded, answered, wrong_answers,
                 exit_reason, sessions, inputs, presented, at_exit, errors, practiced,
                 last_response_time, word>>

EncodeNext == Encode

\* encode_word applied to one word
EncodeSpec == EncodeInit /\ [][EncodeNext]_vars

\* ----------------------------------------------- run() called once more
\* calls of run(), and answer lines read, in one behaviour of ReuseSpec
MaxReuseSessions == 2
MaxReuseAnswers == 2

\* run() is called again on the tutor whose session has ended (main calls
\* it once; this is a second session in the same process)
RunAgain ==
  /\ pc = "done"
  /\ sessions < MaxReuseSessions
  /\ \E r \in Shuffles : LoopHead(start_session(Self), r)
  /\ sessions' = sessions + 1
  /\ wrong_answers' = 0
  /\ practiced' = {}
  /\ UNCHANGED <<current_item, correct, words_file, inputs, presented,
                 last_response_time, word, code>>

ReuseAnswer == AnswerWithin(MaxReuseAnswers)
ReuseContinue == ContinueWithin(MaxReuseAnswers)

ReuseNext == Run \/ ReuseAnswer \/ Quit \/ ReuseContinue \/ RunAgain

\* sessions run one after another by the same tutor, from a fresh install
ReuseSpec == DrillInit /\ [][ReuseNext]_vars

\* ------------------------------------------------------------------ claims
Range(s) == {s[i] : i \in DOMAIN s}
Count(x, s) == Cardinality({i \in DOMAIN s : s[i] = x})
Answered(x) == IF x \in DOMAIN answered THEN answered[x] ELSE 0
InSession == pc \in {"answer", "prompt"}

\* C1: in the practice loop an item occurrence leaves the queue only as the
\* head that was just answered correctly; an incorrect answer moves the head
\* to the tail, so the length and the multiset of queued items stay the same.
C1_HeadLeavesOnlyOnSuccess ==
  (InSession /\ presented # <<>>) =>
    /\ current_item = Head(presented)
    /\ correct => practice_queue = Tail(presented)
    /\ ~correct =>
         /\ Len(practice_queue) = Len(presented)
         /\ \A x \in Range(presented) : Count(x, practice_queue) = Count(x, presented)
         /\ practice_queue[Len(practice_queue)] = Head(presented)
         /\ SubSeq(practice_queue, 1, Len(practice_queue) - 1) = Tail(presented)

\* an incorrect answer after a correct one, the failed item now at the tail
C1_Witness ==
  /\ pc = "prompt"
  /\ ~correct
  /\ correct_answers >= 1
  /\ Len(presented) >= 2
  /\ practice_queue[Len(practice_queue)] = current_item

Ended == at_exit
EndedLevel == Ended.config.difficulty_level
Gated == ~Ended.is_word_level /\ EndedLevel \in 1..8
AccuracyMet ==
  LET req == Levels[EndedLevel].accuracy_requirement
  IN /\ Ended.total_answers > 0
     /\ Ended.correct_answers * req[2] >= req[1] * Ended.total_answers
SpeedMet ==
  LET req == Levels[EndedLevel].speed_requirement
      m == Ended.stats.response_times
      n == Cardinality(DOMAIN m)
  IN n = 0 \/ sum_values(m, DOMAIN m) * req[2] <= req[1] * n * 10
Advanced == config.difficulty_level = EndedLevel + 1

\* C3: at the end of a session in a gated tier the tier ordinal is
\* incremented exactly when the session accuracy is at least the tier's
\* accuracy requirement and the average response time at most its speed
\* requirement, both bounds inclusive; otherwise the profile is unchanged.
C3_AdvanceIffBothMet ==
  (pc = "done" /\ Gated) =>
    /\ Advanced <=> (AccuracyMet /\ SpeedMet)
    /\ ~(AccuracyMet /\ SpeedMet) => config = Ended.config

\* a session that advanced with accuracy and average time exactly at the
\* requirements of its tier
C3_Witness ==
  /\ pc = "done"
  /\ Gated
  /\ Advanced
  /\ accuracy_of(Ended) = Rat(Levels[EndedLevel].accuracy_requirement[1],
                              Levels[EndedLevel].accuracy_requirement[2])
  /\ avg_time_of(Ended) = Rat(Levels[EndedLevel].speed_requirement[1],
                              Levels[EndedLevel].speed_requirement[2])

\* C4: the tier ordinal never decreases and the known-symbol set never loses
\* a member, over answers, session ends and program restarts.
C4_ProgressionMonotonic ==
  [][/\ config'.difficulty_level >= config.difficulty_level
     /\ Range(config.known_chars) \subseteq Range(config'.known_chars)]_vars

\* a second program run started on a profile the first run advanced
C4_Witness ==
  /\ pc = "ready"
  /\ sessions = 2
  /\ config.difficulty_level = EndedLevel + 1
  /\ Len(config.known_chars) > Len(Ended.config.known_chars)

\* C5: a fresh profile's session with every item answered correctly and in
\* time ends at tier 2 with known symbols {E,T,A,I,M,N}; after any advance to
\* tier k+1 the known symbols include every symbol of tiers 1..k+1.
C5_KnownSymbolsCumulative ==
  /\ (/\ pc = "done"
      /\ Ended.config = AppConfigDefault
      /\ Ended.total_answers >= 1
      /\ Ended.correct_answers = Ended.total_answers
      /\ \A c \in DOMAIN Ended.stats.response_times :
           Ended.stats.response_times[c] <= 50) =>
       /\ config.difficulty_level = 2
       /\ Range(config.known_chars) = {"E", "T", "A", "I", "M", "N"}
  /\ (pc = "done" /\ Gated /\ Advanced) =>
       \A j \in 1..Min(config.difficulty_level, 8) :
         Range(Levels[j].chars_to_learn) \subseteq Range(config.known_chars)

\* C6: every presentation is one attempt: during a session correct answers
\* never exceed attempts, the queue length plus the correct answers is the
\* seeded count, and attempts are the correct plus the incorrect answers; a
\* session ended by exhaustion has as many correct answers as seeded items.
C6_AttemptsAccounted ==
  /\ InSession =>
       /\ correct_answers <= total_answers
       /\ Len(practice_queue) + correct_answers = Len(seeded)
       /\ total_answers = correct_answers + wrong_answers
  /\ (pc = "done" /\ exit_reason = "exhausted") =>
       /\ Ended.correct_answers = Len(Ended.seeded)
       /\ Ended.total_answers = Len(Ended.seeded) + wrong_answers
       /\ correct_answers = Ended.correct_answers
       /\ total_answers = Ended.total_answers

\* ten seeded items exhausted with two incorrect answers on the way
C6_Witness ==
  /\ pc = "done"
  /\ exit_reason = "exhausted"
  /\ wrong_answers = 2
  /\ total_answers = 12
  /\ correct_answers = 10

\* C7: after the quit token no item is presented in that session; the
\* counters and response-time samples keep their values, the summary shows
\* the attempts made, and the session is committed and written to both files.
C7_QuitKeepsPartialResult ==
  /\ exit_reason = "quit" => pc = "done"
  /\ (pc = "done" /\ exit_reason = "quit") =>
       /\ total_answers = Ended.total_answers
       /\ correct_answers = Ended.correct_answers
       /\ stats.response_times = Ended.stats.response_times
       /\ stats.word_response_times = Ended.stats.word_response_times
       /\ summary.exercises = Ended.total_answers
       /\ summary.correct = Ended.correct_answers
       /\ stats.sessions_completed = Ended.stats.sessions_completed + 1
       /\ disk_stats = File(stats)
       /\ disk_config = File(config)

\* a quit after the first item with items left in the queue
C7_Witness ==
  /\ pc = "done"
  /\ exit_reason = "quit"
  /\ total_answers = 1
  /\ Len(Ended.practice_queue) >= 9
  /\ disk_stats.exists
  /\ disk_stats.data.sessions_completed = 1

\* C8: the time budget is checked only before an item is presented and only
\* in symbol mode: an answer that outlasts it is still counted and resolved,
\* a timeout exit happens only over budget in symbol mode, and a session in
\* word mode never ends by timeout.
C8_BudgetCheckedBeforeItems ==
  /\ (pc = "answer" /\ ~is_word_level) =>
       elapsed \div 10 <= config.session_duration * 60
  /\ pc = "prompt" =>
       /\ total_answers = correct_answers + wrong_answers
       /\ Len(practice_queue) = Len(presented) - (IF correct THEN 1 ELSE 0)
       /\ IF is_word_level
            THEN current_item \in DOMAIN stats.word_response_times
            ELSE current_item[1] \in DOMAIN stats.response_times
  /\ (pc = "done" /\ exit_reason = "timeout") =>
       /\ ~Ended.is_word_level
       /\ Ended.elapsed \div 10 > Ended.config.session_duration * 60
  /\ (pc = "done" /\ Ended.is_word_level) => exit_reason # "timeout"

\* an answer that took longer than the budget, counted as correct
C8_Witness ==
  /\ pc = "prompt"
  /\ ~is_word_level
  /\ elapsed \div 10 > config.session_duration * 60
  /\ correct
  /\ total_answers = 1
  /\ correct_answers = 1

\* C9: every exit from the loop is followed by one evaluation:
\* sessions_completed grows by one, the open log entry gets the session's
\* accuracy and duration, and the tier advances by the same predicate.
C9_OneEvaluationPerExit ==
  pc = "done" =>
    /\ exit_reason \in {"exhausted", "timeout", "quit"}
    /\ stats.sessions_completed = Ended.stats.sessions_completed + 1
    /\ Len(stats.session_history) = Len(Ended.stats.session_history)
    /\ LET e == stats.session_history[Len(stats.session_history)]
       IN /\ e.duration = Ended.elapsed \div 10
          /\ e.accuracy[1] * Ended.total_answers = Ended.correct_answers * e.accuracy[2]
          /\ Ended.total_answers = 0 => e.accuracy[1] = 0
    /\ Gated => (Advanced <=> (AccuracyMet /\ SpeedMet))
    /\ ~Gated => config = Ended.config

\* a session left by exhaustion after ten correct and two incorrect answers
C9_Witness ==
  /\ pc = "done"
  /\ exit_reason = "exhausted"
  /\ stats.sessions_completed = 1
  /\ stats.session_history[1].accuracy = <<5, 6>>
  /\ Advanced

\* C10: once in word mode the flag stays set and no step changes the tier
\* ordinal or the known symbols.
C10_WordModeTerminal ==
  [][is_word_level =>
       /\ is_word_level'
       /\ config'.difficulty_level = config.difficulty_level
       /\ config'.known_chars = config.known_chars]_vars

\* a second word-mode session, ended, after a restart in word mode
C10_Witness ==
  /\ pc = "done"
  /\ sessions = 2
  /\ is_word_level
  /\ Ended.is_word_level
  /\ Ended.total_answers >= 1
  /\ stats.sessions_completed = 2

\* C11: in word mode every seeding leaves a queue of min(10, size of the
\* word list) items, each a word of the list, and no word is queued twice.
C11_WordSeedDistinct ==
  is_word_level =>
    /\ Len(seeded) = Min(10, Len(common_words))
    /\ \A i \in DOMAIN seeded : seeded[i] \in Range(common_words)
    /\ \A i, j \in DOMAIN seeded : i # j => seeded[i] # seeded[j]

\* the sum of the accuracies the closed log entries hold
RECURSIVE SumAccuracy(_)
SumAccuracy(h) ==
  IF h = <<>> THEN <<0, 1>>
  ELSE RatAdd(h[Len(h)].accuracy, SumAccuracy(SubSeq(h, 1, Len(h) - 1)))

\* C12: starting from default statistics, after N committed sessions the
\* running accuracy is the arithmetic mean of the N session accuracies.
C12_RunningAccuracyIsMean ==
  pc \in {"done", "ready"} =>
    LET h == stats.session_history
        n == stats.sessions_completed
        total == SumAccuracy(h)
    IN /\ n = Len(h)
       /\ stats.accuracy[1] * total[2] * n = total[1] * stats.accuracy[2]

\* three sessions committed, with accuracies 1, 0 and 1/2
C12_Witness ==
  /\ pc = "done"
  /\ stats.sessions_completed = 3
  /\ stats.session_history[1].accuracy = <<1, 1>>
  /\ stats.session_history[2].accuracy = <<0, 1>>
  /\ stats.session_history[3].accuracy = <<1, 2>>
  /\ stats.accuracy = <<1, 2>>

\* C13: a session that ends with no attempt has accuracy 0.0 in its log
\* entry, in the summary and in the running average, and does not advance.
C13_ZeroAttemptsZeroAccuracy ==
  (pc = "done" /\ Ended.total_answers = 0) =>
    LET h == stats.session_history
        n == stats.sessions_completed
    IN /\ h[Len(h)].accuracy = <<0, 1>>
       /\ summary.accuracy = <<0, 1>>
       /\ summary.exercises = 0
       /\ summary.correct = 0
       /\ stats.accuracy[1] * n * Ended.stats.accuracy[2]
            = Ended.stats.accuracy[1] * (n - 1) * stats.accuracy[2]
       /\ config = Ended.config
       /\ is_word_level = Ended.is_word_level

\* a session of a gated level that ran out of time before its first item
C13_Witness ==
  /\ pc = "done"
  /\ Gated
  /\ exit_reason = "timeout"
  /\ Ended.total_answers = 0
  /\ Ended.practice_queue # <<>>
  /\ stats.sessions_completed = 1

\* C14: when the writes succeed, after the end-of-session evaluation the
\* stored profile is the profile in memory, with the new tier and the added
\* known symbols if the session advanced, and the stored statistics are the
\* statistics in memory, with the committed session.
C14_PersistedEqualsMemory ==
  pc = "done" =>
    /\ disk_config.exists /\ disk_config.parses
    /\ disk_stats.exists /\ disk_stats.parses
    /\ load_config(disk_config) = config
    /\ load_stats(disk_stats) = stats
    /\ Len(disk_stats.data.session_history) = Len(Ended.stats.session_history)
    /\ disk_stats.data.sessions_completed = Ended.stats.sessions_completed + 1

\* an advancing session: the stored profile has the next tier and its symbols
C14_Witness ==
  /\ pc = "done"
  /\ Gated
  /\ Advanced
  /\ disk_config.data.difficulty_level = EndedLevel + 1
  /\ Len(disk_config.data.known_chars) > Len(Ended.config.known_chars)
  /\ disk_stats.data.sessions_completed = 1
  /\ disk_stats.data.session_history[1].accuracy = <<1, 1>>

\* a file holds a record
Stored(file, rec) == file.exists /\ file.parses /\ file.data = rec
\* what a tutor holds in memory, and what it last printed as the summary
InMemory(t) ==
  <<t.config, t.stats, t.practice_queue, t.correct_answers, t.total_answers,
    t.is_word_level, t.summary>>

\* C15: a failed write at session end is reported and changes nothing else:
\* the results in memory, the summary and the advancement are the ones of
\* the same session with successful writes.
C15_WriteFailureNonFatal ==
  pc = "done" =>
    /\ \E r \in Shuffles : InMemory(Self) = InMemory(end_session(Ended, r, AllOk))
    /\ summary.exercises = Ended.total_answers
    /\ summary.correct = Ended.correct_answers
    /\ stats.sessions_completed = Ended.stats.sessions_completed + 1
    /\ Gated => (Advanced <=> (AccuracyMet /\ SpeedMet))
    /\ errors <= 3
    /\ errors = 0 => (Stored(disk_config, config) /\ Stored(disk_stats, stats))

\* a session on a fresh install that advanced while all three writes failed
C15_Witness ==
  /\ pc = "done"
  /\ errors = 3
  /\ Gated
  /\ Advanced
  /\ summary.exercises = 1
  /\ stats.sessions_completed = 1
  /\ ~disk_stats.exists

\* a file is missing or cannot be parsed
Unusable(file) == ~file.exists \/ ~file.parses

\* C16: a stored profile or statistics file that cannot be read or parsed is
\* replaced as a whole by the default record, each store on its own; after
\* a profile fallback the session runs in symbol mode at tier 1.
C16_UnreadableStoreFallsBack ==
  /\ pc = "ready" =>
       /\ Unusable(disk_config) =>
            /\ config = AppConfigDefault
            /\ ~is_word_level
            /\ Len(practice_queue) = 10
            /\ Range(practice_queue) = {<<"E">>, <<"T">>}
       /\ ~Unusable(disk_config) => config = disk_config.data
       /\ Unusable(disk_stats) => stats = UserStatsDefault
       /\ ~Unusable(disk_stats) => stats = disk_stats.data
  /\ (pc \in {"answer", "prompt"} /\ Unusable(disk_config)) =>
       /\ config = AppConfigDefault
       /\ ~is_word_level
       /\ stats.session_history[Len(stats.session_history)].difficulty = 1
       /\ current_item \in {<<>>, <<"E">>, <<"T">>}

\* a run started on a damaged word-mode profile and intact statistics: the
\* profile is the default, the statistics are the stored ones
C16_Witness ==
  /\ pc = "answer"
  /\ sessions = 2
  /\ disk_config.exists /\ ~disk_config.parses
  /\ disk_config.data.difficulty_level = 9
  /\ config = AppConfigDefault
  /\ ~is_word_level
  /\ Head(practice_queue) = <<"E">>
  /\ ~Unusable(disk_stats)
  /\ stats.sessions_completed = 1

\* the symbols of MORSE_MAPPING, and the code the table pairs with a symbol
Alphabet == {MORSE_MAPPING[i][1] : i \in DOMAIN MORSE_MAPPING}
InAlphabet(c) == to_ascii_uppercase(c) \in Alphabet
TableCode(c) ==
  MORSE_MAPPING[CHOOSE i \in DOMAIN MORSE_MAPPING :
                  MORSE_MAPPING[i][1] = to_ascii_uppercase(c)][2]

\* the codes of the symbols of w that have one, in order, a space between
\* two of them
RECURSIVE SpaceJoined(_)
SpaceJoined(w) ==
  IF w = <<>> THEN ""
  ELSE LET front == SpaceJoined(SubSeq(w, 1, Len(w) - 1))
           c == w[Len(w)]
       IN IF ~InAlphabet(c) THEN front
          ELSE IF front = "" THEN TableCode(c)
          ELSE front \o " " \o TableCode(c)

\* C17: encode_word gives the codes of the word's symbols in order, joined
\* by spaces, symbols without a code left out; char_to_morse gives a letter
\* the same code in lower and upper case, and gives no code exactly for a
\* symbol outside the 36-symbol alphabet.
C17_EncodeWordJoinsCodes ==
  /\ Cardinality(Alphabet) = 36
  /\ \A i \in DOMAIN word : \A k \in DOMAIN LowerCase :
       word[i] \in {LowerCase[k], UpperCase[k]} =>
         /\ char_to_morse(LowerCase[k]) = char_to_morse(UpperCase[k])
         /\ char_to_morse(UpperCase[k]) # <<>>
  /\ \A i \in DOMAIN word :
       /\ (char_to_morse(word[i]) = <<>>) <=> ~InAlphabet(word[i])
       /\ InAlphabet(word[i]) => char_to_morse(word[i]) = <<TableCode(word[i])>>
  /\ pc = "encoded" => code = SpaceJoined(word)

\* a word with a lower-case letter, a symbol without a code and an
\* upper-case letter
C17_Witness ==
  /\ pc = "encoded"
  /\ word = <<"t", "?", "S">>
  /\ code = "- ..."

\* C18: at session end the log entry of the session lists the items that
\* were presented in it: the symbols in symbol mode, the words in word mode.
C18_LogListsPracticedItems ==
  pc = "done" =>
    LET e == stats.session_history[Len(stats.session_history)]
    IN IF Ended.is_word_level
         THEN /\ Range(e.words_practiced) = practiced
              /\ e.chars_practiced = <<>>
         ELSE /\ Range(e.chars_practiced) = {x[1] : x \in practiced}
              /\ e.words_practiced = <<>>

\* the log entry start_session pushes
OpenEntry(e) ==
  /\ e.duration = 0
  /\ e.accuracy = <<0, 1>>
  /\ e.chars_practiced = <<>>
  /\ e.words_practiced = <<>>

\* C19: every call of run(), a later one in the same process included,
\* starts its session with the queue seeded from the current tier and the
\* known symbols (or the words), the counters at 0, the clock restarted and
\* one new open log entry.
C19_SessionStartSeeds ==
  /\ (pc = "answer" /\ practiced = {}) =>
       /\ \E r \in Shuffles : practice_queue = queue_items(Self, r)
       /\ correct_answers = 0
       /\ total_answers = 0
       /\ elapsed = 0
       /\ Len(stats.session_history) = stats.sessions_completed + 1
       /\ OpenEntry(stats.session_history[Len(stats.session_history)])
  /\ (pc = "done" /\ practiced = {}) =>
       \E r \in Shuffles : Ended.practice_queue = queue_items(Ended, r)

\* the samples a session works on, and those stored when it started (the
\* statistics file is not written before the session ends)
Samples(st) == IF is_word_level THEN st.word_response_times ELSE st.response_times
SampleKey(item) == IF is_word_level THEN item ELSE item[1]

\* C20: the stored sample of an item is the time of its most recent attempt,
\* there is one sample for each item practiced now or in an earlier session,
\* samples of items not practiced in this session are kept, and advancement
\* is decided on the mean of all stored symbol samples.
C20_SamplesOverwrite ==
  /\ pc = "prompt" =>
       Samples(stats)[SampleKey(current_item)] = last_response_time
  /\ InSession =>
       LET before == Samples(load_stats(disk_stats))
           now == Samples(stats)
           fresh == {SampleKey(x) : x \in practiced}
       IN /\ DOMAIN now = DOMAIN before \cup fresh
          /\ \A k \in DOMAIN before \ fresh : now[k] = before[k]
  /\ (pc = "done" /\ Gated) => (Advanced <=> (AccuracyMet /\ SpeedMet))

\* a second session with one quick correct answer that does not advance,
\* because the slow sample of the first session still counts
C20_Witness ==
  /\ pc = "done"
  /\ sessions = 2
  /\ Gated
  /\ practiced = {<<"E">>}
  /\ Ended.correct_answers = 1
  /\ Ended.total_answers = 1
  /\ DOMAIN stats.response_times = {"E", "T"}
  /\ stats.response_times["E"] = 10
  /\ stats.response_times["T"] = 700
  /\ ~Advanced

\* C21: starting from the default profile, the word flag is set exactly when
\* the level is at least 9, and the level stays within 1..9.
C21_WordFlagIffLevel9 ==
  /\ is_word_level <=> config.difficulty_level >= 9
  /\ config.difficulty_level \in 1..9

\* the ninth run, in word mode, after eight runs that advanced from level 1
C21_Witness ==
  /\ sessions = 9
  /\ pc = "prompt"
  /\ is_word_level
  /\ config.difficulty_level = 9
  /\ stats.sessions_completed = 8
  /\ Len(current_item) > 1

====
